---- MODULE Spec2Model ----
(***************************************************************************)
(* PostsCache (src/utils/posts_cache.py): the background post-feed cache.  *)
(* State: the main-feed and tag-feed entries, the seen-ID sets, the        *)
(* lifecycle flags, the snapshot files, and the position of every thread   *)
(* (priority loader, background loop, refresh threads, request handlers).  *)
(***************************************************************************)
EXTENDS Integers, Sequences, FiniteSets, TLC

\* ------------------------------------------------------------------ bounds
\* refresh threads started by request handlers that are alive at once
MaxThreads == 1
\* the same, in the runs that look for two refreshes of one key
RaceThreads == 2
\* a posts / new_posts list longer than this is not extended any further
MaxLen == 2

\* ------------------------------------------------------- program constants
\* posts_cache.py:468  time.sleep(0.2), in tenths of a second
PollStep == 2
\* posts_cache.py:462  max_wait_time = 3, in tenths of a second
MaxWaitTime == 30
\* app.py:566  timeout=0.5, in tenths of a second
RouteTimeout == 5

\* posts_cache.py:47-72  the keys of self.cache, in dict order
MainFeeds == <<"trending", "hot", "new", "promoted">>
\* posts_cache.py:22
STARTUP_PRIORITY_FEEDS == <<"trending", "hot">>

Range(s) == {s[i] : i \in DOMAIN s}
MainFeedSet == Range(MainFeeds)
PrioritySet == Range(STARTUP_PRIORITY_FEEDS)

\* ------------------------------------------------------------------- posts
\* A post dictionary: id 0 is an absent/empty "id", title FALSE an absent or
\* empty "title", ap the id f"{author}-{permlink}" synthesises to (0 when
\* author or permlink is absent), created the "created" sort key.
MkPost(i, titled, tagset) ==
    [id |-> i, title |-> titled, created |-> i, ap |-> 0, tags |-> tagset]

None == "None"

\* every post kept, titled or not
KeepAll(ps) == ps

\* posts_cache.py:624  posts = [post for post in posts if post.get("title")]
TitleFilter(ps) == SelectSeq(ps, LAMBDA p : p.title)

\* posts_cache.py:640  f"post-{int(time.time())}-{id(post)}": a token no
\* other post carries (negative, so it meets no upstream id)
AnonId(p) == 0 - (p.created + 1)

\* posts_cache.py:635-640  the id a post leaves the loop body with
EnsureId(p) ==
    IF p.id # 0 THEN p
    ELSE [p EXCEPT !.id = IF p.ap # 0 THEN p.ap ELSE AnonId(p)]

EnsureIds(ps) == [i \in DOMAIN ps |-> EnsureId(ps[i])]

Ids(ps) == {ps[i].id : i \in DOMAIN ps}

\* posts_cache.py:632-645  the classification loop over the fetched posts,
\* from position i, with the ids seen so far and the new posts so far
RECURSIVE ClassifyFrom(_, _, _, _)
ClassifyFrom(ps, i, ids, new) ==
    IF i > Len(ps) THEN [new |-> new, ids |-> ids]
    ELSE IF ps[i].id \notin ids
         THEN ClassifyFrom(ps, i + 1, ids \cup {ps[i].id}, Append(new, ps[i]))
         ELSE ClassifyFrom(ps, i + 1, ids, new)

\* every fetched post taken for new, without the test of line 643
ClassifyAll(ps, seen) == [new |-> ps, ids |-> seen \cup Ids(ps)]

Classify(ps, seen) == ClassifyFrom(ps, 1, seen, <<>>)

\* posts_cache.py:614  posts.sort(key=created, reverse=True): a stable sort,
\* equal keys keep their fetched order
RECURSIVE InsertDesc(_, _)
InsertDesc(p, s) ==
    IF s = <<>> THEN <<p>>
    ELSE IF Head(s).created >= p.created
         THEN <<Head(s)>> \o InsertDesc(p, Tail(s))
         ELSE <<p>> \o s

RECURSIVE SortFrom(_, _, _)
SortFrom(ps, i, acc) ==
    IF i > Len(ps) THEN acc ELSE SortFrom(ps, i + 1, InsertDesc(ps[i], acc))

SortByCreatedDesc(ps) == SortFrom(ps, 1, <<>>)

\* the Fetcher's answer kept whole, posts without a title included
FetchedUnfiltered(feed, raw) == IF feed \in MainFeedSet THEN raw ELSE <<>>

\* posts_cache.py:598-624  what the refresh keeps of the Fetcher's answer
FetchedFor(feed, raw) ==
    TitleFilter(IF feed = "new" THEN SortByCreatedDesc(raw)
                ELSE IF feed \in MainFeedSet THEN raw
                ELSE <<>>)

\* posts[:limit]
Take(ps, n) == SubSeq(ps, 1, IF n < Len(ps) THEN n ELSE Len(ps))

\* ------------------------------------------------------------ feed entries
\* posts_cache.py:48-53, 155-160, 426-431, 578-583
EmptyEntry ==
    [posts |-> <<>>, new_posts |-> <<>>, last_updated |-> None, updating |-> FALSE]

\* a feed key: the feed type, and the tag or None (the key of post_ids_seen
\* and of the snapshot file; with a tag, the key of tag_cache)
Key(feed, tag) == <<feed, tag>>

\* d[k] = v, creating the key when the dict does not hold it
Put(d, k, v) == [x \in DOMAIN d \cup {k} |-> IF x = k THEN v ELSE d[x]]

\* d.get(k, default)
Get(d, k, default) == IF k \in DOMAIN d THEN d[k] ELSE default

\* --------------------------------------------------------------- snapshots
\* posts_cache.py:239-254  the file _save_cache_to_file writes
Snapshot(posts, new_posts, ids) ==
    [shape |-> "ok", fresh |-> TRUE, posts |-> posts, new_posts |-> new_posts,
     last_updated |-> "ts", has_ids |-> TRUE, post_ids |-> ids]

\* posts_cache.py:227-258  _save_cache_to_file for a main feed: the files
\* after the call
SaveMain(files, feed, entries, seen) ==
    IF feed \notin DOMAIN entries THEN files
    ELSE IF entries[feed].posts = <<>> THEN files
    ELSE Put(files, Key(feed, None),
             Snapshot(entries[feed].posts, entries[feed].new_posts,
                      Get(seen, Key(feed, None), {})))

\* posts_cache.py:213-226, 238-258  _save_cache_to_file for a tag feed
SaveTag(files, feed, tag, entries) ==
    LET k == Key(feed, tag) IN
    IF k \notin DOMAIN entries THEN files
    ELSE IF entries[k].posts = <<>> THEN files
    ELSE Put(files, k,
             Snapshot(entries[k].posts, entries[k].new_posts,
                      Ids(entries[k].posts) \cup Ids(entries[k].new_posts)))

\* posts_cache.py:113-198  _load_cache_from_file for a main feed: the entry
\* and the seen set after the call, and the value returned
LoadMain(files, feed, entry, ids) ==
    LET k == Key(feed, None)
        no == [entry |-> entry, ids |-> ids, ok |-> FALSE]
    IN  IF k \notin DOMAIN files THEN no
        ELSE IF ~files[k].fresh THEN no
        ELSE IF files[k].shape # "ok" THEN no
        ELSE IF files[k].last_updated = "bad"
             THEN [entry |-> [entry EXCEPT !.posts = files[k].posts],
                   ids |-> ids, ok |-> FALSE]
        ELSE [entry |-> [entry EXCEPT !.posts = files[k].posts,
                                      !.last_updated = files[k].last_updated],
              ids |-> IF files[k].has_ids THEN files[k].post_ids
                      ELSE Ids(files[k].posts) \ {0},
              ok |-> TRUE]

\* ------------------------------------------------------------------- state
VARIABLES
    cache,            \* self.cache: main feed type -> entry
    tag_cache,        \* self.tag_cache: tag feed key -> entry
    post_ids_seen,    \* self.post_ids_seen: feed key -> set of ids
    running,          \* self.running
    initialized,      \* self.initialized
    event,            \* self.event (threading.Event): is it set
    startup_complete, \* self._startup_complete
    disk,             \* the cache directory: feed key -> snapshot file
    prio,             \* PriorityFeedsThread: position in _load_priority_feeds
    loop,             \* PostsCacheRefreshThread: position in the loop
    rt,               \* the frames of _refresh_feed, one per running call
    req,              \* the request handler's call into the cache
    upstream,         \* the answers the Fetcher may give (fixed per run)
    workload          \* the calls request handlers may make (fixed per run)

vars == <<cache, tag_cache, post_ids_seen, running, initialized, event,
          startup_complete, disk, prio, loop, rt, req, upstream, workload>>

\* posts_cache.py:538-539  the feeds _refresh_remaining_feeds refreshes
RemainingFeeds == SelectSeq(MainFeeds, LAMBDA f : f \notin PrioritySet)

\* The calls of _refresh_feed that can be running: frame 0 is the call
\* _load_priority_feeds makes inline, frame -i the InitRefresh thread of the
\* i-th remaining feed, frames 1..n the threads get_posts starts.
PrioFrame == 0
InitFrame(i) == 0 - i
FramesWith(n) == {InitFrame(i) : i \in DOMAIN RemainingFeeds} \cup {PrioFrame} \cup 1..n
Frames == DOMAIN rt

IdleFrame ==
    [pc |-> "idle", feed |-> None, tag |-> None, block |-> FALSE,
     posts |-> <<>>, ids |-> {}, new |-> <<>>, old |-> <<>>]

\* posts_cache.py:553-566  _refresh_feed(feed_type, tag, block) entered
CallFrame(feed, tag, block) ==
    [IdleFrame EXCEPT !.pc = "guard", !.feed = feed, !.tag = tag, !.block = block]

IdleReq ==
    [pc |-> "idle", op |-> None, feed |-> None, tag |-> None, mode |-> None,
     timeout |-> -1, limit |-> 0, posts |-> <<>>, wait |-> 0, ret |-> <<>>,
     count |-> 0, ok |-> FALSE]

FreeThreads == {t \in Frames : t >= 1 /\ rt[t].pc = "idle"}
\* threading.Thread(target=self._refresh_feed, args=(feed, tag)).start()
StartThread(feed, tag) ==
    LET t == CHOOSE x \in FreeThreads : \A y \in FreeThreads : x <= y
    IN  [rt EXCEPT ![t] = CallFrame(feed, tag, FALSE)]

\* posts_cache.py:33-89  the state __init__ leaves
InitWith(files, answers, calls, n) ==
    /\ cache = [f \in MainFeedSet |-> EmptyEntry]
    /\ tag_cache = <<>>
    /\ post_ids_seen = [k \in {Key(f, None) : f \in MainFeedSet} |-> {}]
    /\ running = FALSE
    /\ initialized = FALSE
    /\ event = FALSE
    /\ startup_complete = FALSE
    /\ disk \in files
    /\ prio = [st |-> "off", i |-> 1]
    /\ loop = [pc |-> "off", i |-> 1]
    /\ rt = [t \in FramesWith(n) |-> IdleFrame]
    /\ req = IdleReq
    /\ upstream = answers
    /\ workload = calls

\* posts_cache.py:275-280  the loads of start(), feed by feed
RECURSIVE LoadAll(_, _, _, _, _)
LoadAll(files, i, entries, seen, n) ==
    IF i > Len(MainFeeds) THEN [entries |-> entries, seen |-> seen, n |-> n]
    ELSE LET f == MainFeeds[i]
             r == LoadMain(files, f, entries[f], seen[Key(f, None)])
         IN  LoadAll(files, i + 1, [entries EXCEPT ![f] = r.entry],
                     [seen EXCEPT ![Key(f, None)] = r.ids],
                     IF r.ok THEN n + 1 ELSE n)

\* posts_cache.py:267-306  start(): runs before any request is served
Start ==
    /\ ~running
    /\ prio.st = "off"
    /\ LET r == LoadAll(disk, 1, cache, post_ids_seen, 0) IN
        /\ cache' = r.entries
        /\ post_ids_seen' = r.seen
        /\ initialized' = IF r.n > 0 THEN TRUE ELSE initialized
    /\ running' = TRUE
    /\ prio' = [st |-> "pick", i |-> 1]
    /\ loop' = [pc |-> "spawn", i |-> 1]
    /\ UNCHANGED <<tag_cache, event, startup_complete, disk, rt, req,
                   upstream, workload>>

\* ------------------------------------------------- _load_priority_feeds
\* posts_cache.py:312-328  the next priority feed: block only when the feed
\* holds no cached posts
PrioPick ==
    /\ prio.st = "pick"
    /\ prio.i <= Len(STARTUP_PRIORITY_FEEDS)
    /\ LET f == STARTUP_PRIORITY_FEEDS[prio.i] IN
        rt' = [rt EXCEPT ![PrioFrame] =
                  CallFrame(f, None, Len(cache[f].posts) = 0)]
    /\ prio' = [prio EXCEPT !.st = "call"]
    /\ UNCHANGED <<cache, tag_cache, post_ids_seen, running, initialized, event,
                   startup_complete, disk, loop, req, upstream, workload>>

\* posts_cache.py:330-331  self.initialized = True, and the thread ends
PrioInit ==
    /\ prio.st = "pick"
    /\ prio.i > Len(STARTUP_PRIORITY_FEEDS)
    /\ initialized' = TRUE
    /\ prio' = [prio EXCEPT !.st = "done"]
    /\ UNCHANGED <<cache, tag_cache, post_ids_seen, running, event,
                   startup_complete, disk, loop, rt, req, upstream, workload>>

\* --------------------------------------------------------- _refresh_feed
\* the entry _refresh_feed works on (cache_dict), when the dict holds it
HasEntry(feed, tag) ==
    IF tag = None THEN feed \in DOMAIN cache ELSE Key(feed, tag) \in DOMAIN tag_cache

EntryOf(feed, tag) ==
    IF tag = None THEN cache[feed] ELSE tag_cache[Key(feed, tag)]

WriteEntry(feed, tag, e) ==
    IF tag = None
    THEN cache' = [cache EXCEPT ![feed] = e] /\ UNCHANGED tag_cache
    ELSE tag_cache' = [tag_cache EXCEPT ![Key(feed, tag)] = e] /\ UNCHANGED cache

\* _refresh_feed returns: a thread ends, the priority loader goes on to its
\* next feed
Return(t) ==
    /\ rt' = [rt EXCEPT ![t] = IdleFrame]
    /\ prio' = IF t = PrioFrame THEN [st |-> "pick", i |-> prio.i + 1] ELSE prio

\* posts_cache.py:572-574  "Skip if already being updated (unless blocking)"
Skips(t) ==
    /\ HasEntry(rt[t].feed, rt[t].tag)
    /\ EntryOf(rt[t].feed, rt[t].tag).updating
    /\ ~rt[t].block

\* posts_cache.py:564-588  the guard, and for a tag feed the creation of its
\* entry and its id set
RGuard(t) ==
    /\ rt[t].pc = "guard"
    /\ IF Skips(t)
       THEN /\ Return(t)
            /\ UNCHANGED <<tag_cache, post_ids_seen>>
       ELSE /\ rt' = [rt EXCEPT ![t].pc = "mark"]
            /\ UNCHANGED prio
            /\ IF rt[t].tag = None
               THEN UNCHANGED <<tag_cache, post_ids_seen>>
               ELSE LET k == Key(rt[t].feed, rt[t].tag) IN
                    /\ tag_cache' = IF k \in DOMAIN tag_cache THEN tag_cache
                                    ELSE Put(tag_cache, k, EmptyEntry)
                    /\ post_ids_seen' = IF k \in DOMAIN post_ids_seen
                                        THEN post_ids_seen
                                        ELSE Put(post_ids_seen, k, {})
    /\ UNCHANGED <<cache, running, initialized, event, startup_complete, disk,
                   loop, req, upstream, workload>>

\* posts_cache.py:590-591  cache_dict["updating"] = True
RMark(t) ==
    /\ rt[t].pc = "mark"
    /\ WriteEntry(rt[t].feed, rt[t].tag,
                  [EntryOf(rt[t].feed, rt[t].tag) EXCEPT !.updating = TRUE])
    /\ rt' = [rt EXCEPT ![t].pc = "fetch"]
    /\ UNCHANGED <<post_ids_seen, running, initialized, event, startup_complete,
                   disk, prio, loop, req, upstream, workload>>

\* posts_cache.py:594-645, 687-693  the Fetcher answers: it raises, or it
\* returns posts; with titled posts left, current_ids is copied from the
\* seen set and the classification loop runs on the thread's own data
RFetch(t) ==
    /\ rt[t].pc = "fetch"
    /\ \E a \in upstream :
         LET fetched == EnsureIds(FetchedFor(rt[t].feed, a.posts))
             c == Classify(fetched,
                           Get(post_ids_seen, Key(rt[t].feed, rt[t].tag), {}))
         IN  rt' = [rt EXCEPT ![t] =
                 IF a.raises \/ fetched = <<>>
                 THEN [@ EXCEPT !.pc = "finally"]
                 ELSE [@ EXCEPT !.pc = "write_ids", !.posts = fetched,
                                !.ids = c.ids, !.new = c.new]]
    /\ UNCHANGED <<cache, tag_cache, post_ids_seen, running, initialized, event,
                   startup_complete, disk, prio, loop, req, upstream, workload>>

\* posts_cache.py:647-648  self.post_ids_seen[id_set_key] = current_ids
RWriteIds(t) ==
    /\ rt[t].pc = "write_ids"
    /\ post_ids_seen' = Put(post_ids_seen, Key(rt[t].feed, rt[t].tag), rt[t].ids)
    /\ rt' = [rt EXCEPT ![t].pc = "branch", ![t].ids = {}]
    /\ UNCHANGED <<cache, tag_cache, running, initialized, event,
                   startup_complete, disk, prio, loop, req, upstream, workload>>

\* posts_cache.py:652, 669  "if new_posts and not self._startup_complete"
StartupPath(t) == rt[t].new # <<>> /\ ~startup_complete

\* posts_cache.py:652-659, 669-674  the test of the startup flag; on the
\* steady-state path existing_new_posts is read
RBranch(t) ==
    /\ rt[t].pc = "branch"
    /\ rt' = [rt EXCEPT ![t] =
           IF StartupPath(t) THEN [@ EXCEPT !.pc = "replace"]
           ELSE [@ EXCEPT !.pc = "append",
                          !.old = EntryOf(rt[t].feed, rt[t].tag).new_posts]]
    /\ UNCHANGED <<cache, tag_cache, post_ids_seen, running, initialized, event,
                   startup_complete, disk, prio, loop, req, upstream, workload>>

\* posts_cache.py:654, 671  self.cache[feed_type]["posts"] = posts
Replaced(entry, fetched) == [entry EXCEPT !.posts = fetched]

RReplace(t) ==
    /\ rt[t].pc = "replace"
    /\ WriteEntry(rt[t].feed, rt[t].tag,
                  Replaced(EntryOf(rt[t].feed, rt[t].tag), rt[t].posts))
    /\ rt' = [rt EXCEPT ![t].pc = "save", ![t].posts = <<>>, ![t].new = <<>>]
    /\ UNCHANGED <<post_ids_seen, running, initialized, event, startup_complete,
                   disk, prio, loop, req, upstream, workload>>

\* new_posts replaced by the posts of this refresh
AppendedOver(entry, old, new) == [entry EXCEPT !.new_posts = new]

\* posts_cache.py:660-662, 675-677  new_posts = existing_new_posts + new_posts
Appended(entry, old, new) == [entry EXCEPT !.new_posts = old \o new]

RAppend(t) ==
    /\ rt[t].pc = "append"
    /\ Len(rt[t].old) <= MaxLen
    /\ WriteEntry(rt[t].feed, rt[t].tag,
                  Appended(EntryOf(rt[t].feed, rt[t].tag), rt[t].old, rt[t].new))
    /\ rt' = [rt EXCEPT ![t].pc = "save", ![t].posts = <<>>, ![t].old = <<>>,
                        ![t].new = <<>>]
    /\ UNCHANGED <<post_ids_seen, running, initialized, event, startup_complete,
                   disk, prio, loop, req, upstream, workload>>

\* _save_cache_to_file(feed_type, tag) on the state as it is
Saved(feed, tag, entries, tags, seen) ==
    IF tag = None THEN SaveMain(disk, feed, entries, seen)
    ELSE SaveTag(disk, feed, tag, tags)

\* posts_cache.py:664-666, 679-681  last_updated = datetime.now(), then
\* _save_cache_to_file
RSave(t) ==
    /\ rt[t].pc = "save"
    /\ WriteEntry(rt[t].feed, rt[t].tag,
                  [EntryOf(rt[t].feed, rt[t].tag) EXCEPT !.last_updated = "ts"])
    /\ disk' = Saved(rt[t].feed, rt[t].tag, cache', tag_cache', post_ids_seen)
    /\ rt' = [rt EXCEPT ![t].pc = "finally"]
    /\ UNCHANGED <<post_ids_seen, running, initialized, event, startup_complete,
                   prio, loop, req, upstream, workload>>

\* posts_cache.py:694-699  finally: updating = False, and the call returns
RFinally(t) ==
    /\ rt[t].pc = "finally"
    /\ WriteEntry(rt[t].feed, rt[t].tag,
                  [EntryOf(rt[t].feed, rt[t].tag) EXCEPT !.updating = FALSE])
    /\ Return(t)
    /\ UNCHANGED <<post_ids_seen, running, initialized, event, startup_complete,
                   disk, loop, req, upstream, workload>>

\* ---------------------------------------------- _background_refresh_loop
\* posts_cache.py:538-547  one InitRefresh thread per non-priority feed
LoopSpawn ==
    /\ loop.pc = "spawn"
    /\ loop.i <= Len(RemainingFeeds)
    /\ rt' = [rt EXCEPT ![InitFrame(loop.i)] =
                  CallFrame(RemainingFeeds[loop.i], None, FALSE)]
    /\ loop' = [loop EXCEPT !.i = loop.i + 1]
    /\ UNCHANGED <<cache, tag_cache, post_ids_seen, running, initialized, event,
                   startup_complete, disk, prio, req, upstream, workload>>

\* the joins without their timeout: they return when the threads have ended
LoopJoinForever ==
    /\ loop.pc = "spawn"
    /\ loop.i > Len(RemainingFeeds)
    /\ \A i \in DOMAIN RemainingFeeds : rt[InitFrame(i)].pc = "idle"
    /\ loop' = [pc |-> "complete", i |-> 1]
    /\ UNCHANGED <<cache, tag_cache, post_ids_seen, running, initialized, event,
                   startup_complete, disk, prio, rt, req, upstream, workload>>

\* posts_cache.py:549-551  thread.join(timeout=30) for each thread: every
\* join returns, when its thread has ended or when the 30 seconds are over
LoopJoin ==
    /\ loop.pc = "spawn"
    /\ loop.i > Len(RemainingFeeds)
    /\ loop' = [pc |-> "complete", i |-> 1]
    /\ UNCHANGED <<cache, tag_cache, post_ids_seen, running, initialized, event,
                   startup_complete, disk, prio, rt, req, upstream, workload>>

\* posts_cache.py:490-491  self._startup_complete = True
LoopComplete ==
    /\ loop.pc = "complete"
    /\ startup_complete' = TRUE
    /\ loop' = [loop EXCEPT !.pc = "initialized"]
    /\ UNCHANGED <<cache, tag_cache, post_ids_seen, running, initialized, event,
                   disk, prio, rt, req, upstream, workload>>

\* posts_cache.py:492  self.initialized = True
LoopInitialized ==
    /\ loop.pc = "initialized"
    /\ initialized' = TRUE
    /\ loop' = [loop EXCEPT !.pc = "signal"]
    /\ UNCHANGED <<cache, tag_cache, post_ids_seen, running, event,
                   startup_complete, disk, prio, rt, req, upstream, workload>>

\* posts_cache.py:493  self.event.set()
LoopSignal ==
    /\ loop.pc = "signal"
    /\ event' = TRUE
    /\ loop' = [loop EXCEPT !.pc = "wait"]
    /\ UNCHANGED <<cache, tag_cache, post_ids_seen, running, initialized,
                   startup_complete, disk, prio, rt, req, upstream, workload>>

\* the wait of the loop taken as an uninterruptible sleep: the pass follows
\* whatever the event says
AfterSleep == IF ~running THEN "done" ELSE "pass"

\* posts_cache.py:497-506  where the loop goes from "while self.running":
\* out when running is false; out ("break") when event.wait(refresh_interval)
\* returns True, which it does at once while the event is set; into the
\* pass (_refresh_all_feeds) only when the wait times out
AfterWait == IF ~running THEN "done" ELSE IF event THEN "done" ELSE "pass"

LoopWait ==
    /\ loop.pc = "wait"
    /\ loop' = [loop EXCEPT !.pc = AfterWait]
    /\ UNCHANGED <<cache, tag_cache, post_ids_seen, running, initialized, event,
                   startup_complete, disk, prio, rt, req, upstream, workload>>

\* posts_cache.py:774-791  _cleanup_tag_cache, called from the pass of the
\* loop only (line 509): the tag cache without the entries that have a
\* last_updated and whose last_updated is more than an hour old (the keys
\* in old); an entry whose last_updated is None stays
cleanup_tag_cache(tags, old) ==
    [k \in {x \in DOMAIN tags : ~(tags[x].last_updated # None /\ x \in old)}
        |-> tags[k]]

\* ------------------------------------------------------ request handlers
\* a request handler is free to make its next call into the cache: no call
\* was made yet, or the last one returned or raised
ReqFree == running /\ req.pc \in {"idle", "done", "raised"}

\* the call c entered, at position pc
Called(c, pc) ==
    [IdleReq EXCEPT !.pc = pc, !.op = c.op, !.feed = c.feed, !.tag = c.tag,
                    !.mode = c.mode, !.timeout = c.timeout, !.limit = c.limit]

\* the call returns the list ps (get_posts: posts[:limit] if posts else [])
Returned(r, ps) ==
    [r EXCEPT !.pc = "done", !.posts = <<>>, !.ret = Take(ps, r.limit)]

\* posts_cache.py:391-398, 440-451  the list new_only / include_new select
Selected(entry, mode) ==
    IF mode = "new_only" THEN entry.new_posts
    ELSE IF mode = "include_new" THEN entry.posts \o entry.new_posts
    ELSE entry.posts

\* posts_cache.py:863-879  is_feed_ready
is_feed_ready(feed) ==
    IF feed \notin DOMAIN cache THEN FALSE
    ELSE Len(cache[feed].posts) > 0 /\ ~cache[feed].updating

\* posts_cache.py:736-755  get_new_post_count
get_new_post_count(feed, tag) ==
    IF ~HasEntry(feed, tag) THEN 0 ELSE Len(EntryOf(feed, tag).new_posts)

\* posts_cache.py:438-451  get_posts on a main feed: the list is selected
GetSelect ==
    /\ ReqFree
    /\ \E c \in workload :
         /\ c.op = "get_posts"
         /\ c.tag = None
         /\ req' = [Called(c, "check") EXCEPT !.posts =
                       Selected(Get(cache, c.feed, EmptyEntry), c.mode)]
    /\ UNCHANGED <<cache, tag_cache, post_ids_seen, running, initialized, event,
                   startup_complete, disk, prio, loop, rt, upstream, workload>>

\* posts_cache.py:454-455  where get_posts goes from line 454: it returns
\* the list; it raises KeyError on self.cache[feed_type]; it polls (priority
\* feed, not initialized); or it goes on to start a refresh thread
AfterCheck(r) ==
    IF r.timeout = -1 \/ r.posts # <<>> THEN "done"
    ELSE IF r.feed \notin DOMAIN cache THEN "raised"
    ELSE IF ~cache[r.feed].updating THEN "done"
    ELSE IF r.feed \in PrioritySet /\ ~initialized THEN "poll"
    ELSE "spawn"

GetCheck ==
    /\ req.pc = "check"
    /\ req' = IF AfterCheck(req) = "done" THEN Returned(req, req.posts)
              ELSE [req EXCEPT !.pc = AfterCheck(req)]
    /\ UNCHANGED <<cache, tag_cache, post_ids_seen, running, initialized, event,
                   startup_complete, disk, prio, loop, rt, upstream, workload>>

\* posts_cache.py:463-467  the condition of the poll loop
Polls(r) ==
    /\ r.posts = <<>>
    /\ r.wait < MaxWaitTime
    /\ cache[r.feed].updating

\* posts_cache.py:463-467, 472-473  the loop condition is tested; when it
\* fails the loop is left, for the thread start or for the return
GetPoll ==
    /\ req.pc = "poll"
    /\ req' = IF Polls(req) THEN [req EXCEPT !.pc = "sleep"]
              ELSE IF req.posts = <<>> THEN [req EXCEPT !.pc = "spawn"]
              ELSE Returned(req, req.posts)
    /\ UNCHANGED <<cache, tag_cache, post_ids_seen, running, initialized, event,
                   startup_complete, disk, prio, loop, rt, upstream, workload>>

\* posts_cache.py:468-470  time.sleep(0.2); wait_time += 0.2; posts re-read
GetWake ==
    /\ req.pc = "sleep"
    /\ req' = [req EXCEPT !.pc = "poll", !.wait = req.wait + PollStep,
                          !.posts = cache[req.feed].posts]
    /\ UNCHANGED <<cache, tag_cache, post_ids_seen, running, initialized, event,
                   startup_complete, disk, prio, loop, rt, upstream, workload>>

\* posts_cache.py:473-482  the FeedRefresh thread is started, [] returned
GetSpawn ==
    /\ req.pc = "spawn"
    /\ FreeThreads # {}
    /\ rt' = StartThread(req.feed, None)
    /\ req' = Returned(req, req.posts)
    /\ UNCHANGED <<cache, tag_cache, post_ids_seen, running, initialized, event,
                   startup_complete, disk, prio, loop, upstream, workload>>

\* posts_cache.py:417-418  the main feed's posts that carry the tag
TagFiltered(feed, tag) ==
    SelectSeq(Get(cache, feed, EmptyEntry).posts, LAMBDA p : tag \in p.tags)

\* posts_cache.py:388-437, 482  get_posts with a tag.  With posts in the tag
\* entry: the selected list, and a refresh thread when last_updated is None
\* or more than 600 seconds old (stale: whether that much time has passed).
\* Otherwise: the main feed filtered by the tag, the placeholder entry, and
\* a refresh thread unless the entry is updating.
GetTag ==
    /\ ReqFree
    /\ \E c \in workload, stale \in BOOLEAN :
         LET k == Key(c.feed, c.tag)
             hit == k \in DOMAIN tag_cache /\ tag_cache[k].posts # <<>>
             start == IF hit THEN tag_cache[k].last_updated = None \/ stale
                      ELSE k \notin DOMAIN tag_cache \/ ~tag_cache[k].updating
         IN  /\ c.op = "get_posts"
             /\ c.tag # None
             /\ hit \/ ~stale
             /\ start => FreeThreads # {}
             /\ tag_cache' = IF hit \/ k \in DOMAIN tag_cache THEN tag_cache
                             ELSE Put(tag_cache, k, EmptyEntry)
             /\ rt' = IF start THEN StartThread(c.feed, c.tag) ELSE rt
             /\ req' = Returned(Called(c, "done"),
                                IF hit THEN Selected(tag_cache[k], c.mode)
                                ELSE TagFiltered(c.feed, c.tag))
    /\ UNCHANGED <<cache, post_ids_seen, running, initialized, event,
                   startup_complete, disk, prio, loop, upstream, workload>>

\* posts_cache.py:712-722  merge_new_posts: the entry is looked up and its
\* new_posts read; nothing to merge returns 0
MergeRead ==
    /\ ReqFree
    /\ \E c \in workload :
         /\ c.op = "merge_new_posts"
         /\ req' = IF ~HasEntry(c.feed, c.tag) THEN Called(c, "done")
                   ELSE IF EntryOf(c.feed, c.tag).new_posts = <<>>
                   THEN Called(c, "done")
                   ELSE [Called(c, "m_write") EXCEPT !.posts =
                            EntryOf(c.feed, c.tag).new_posts]
    /\ UNCHANGED <<cache, tag_cache, post_ids_seen, running, initialized, event,
                   startup_complete, disk, prio, loop, rt, upstream, workload>>

\* the new posts put behind the posts, not in front
MergedBehind(entry, new) == [entry EXCEPT !.posts = entry.posts \o new]

\* posts_cache.py:724-725  cache_dict["posts"] = new_posts + cache_dict["posts"]
Merged(entry, new) == [entry EXCEPT !.posts = new \o entry.posts]

MergeWrite ==
    /\ req.pc = "m_write"
    /\ Len(EntryOf(req.feed, req.tag).posts) <= MaxLen
    /\ WriteEntry(req.feed, req.tag, Merged(EntryOf(req.feed, req.tag), req.posts))
    /\ req' = [req EXCEPT !.pc = "m_clear"]
    /\ UNCHANGED <<post_ids_seen, running, initialized, event, startup_complete,
                   disk, prio, loop, rt, upstream, workload>>

\* posts_cache.py:727-728  cache_dict["new_posts"] = []
MergeClear ==
    /\ req.pc = "m_clear"
    /\ WriteEntry(req.feed, req.tag,
                  [EntryOf(req.feed, req.tag) EXCEPT !.new_posts = <<>>])
    /\ req' = [req EXCEPT !.pc = "m_save"]
    /\ UNCHANGED <<post_ids_seen, running, initialized, event, startup_complete,
                   disk, prio, loop, rt, upstream, workload>>

\* posts_cache.py:730-734  _save_cache_to_file, return len(new_posts)
MergeSave ==
    /\ req.pc = "m_save"
    /\ disk' = Saved(req.feed, req.tag, cache, tag_cache, post_ids_seen)
    /\ req' = [req EXCEPT !.pc = "done", !.count = Len(req.posts), !.posts = <<>>]
    /\ UNCHANGED <<cache, tag_cache, post_ids_seen, running, initialized, event,
                   startup_complete, prio, loop, rt, upstream, workload>>

\* ------------------------------------------------ shutdown and waiting
\* posts_cache.py:762-763  save_all_caches, the main feeds from the i-th on
RECURSIVE SaveAllMain(_, _, _, _)
SaveAllMain(files, i, entries, seen) ==
    IF i > Len(MainFeeds) THEN files
    ELSE SaveAllMain(SaveMain(files, MainFeeds[i], entries, seen), i + 1,
                     entries, seen)

\* posts_cache.py:766-770  save_all_caches, the tag feeds with keys ks
RECURSIVE SaveAllTags(_, _, _)
SaveAllTags(files, ks, tags) ==
    IF ks = {} THEN files
    ELSE LET k == CHOOSE x \in ks : TRUE
         IN  SaveAllTags(SaveTag(files, k[1], k[2], tags), ks \ {k}, tags)

\* posts_cache.py:757-772  save_all_caches: the files after the call
save_all_caches(files, entries, tags, seen) ==
    SaveAllTags(SaveAllMain(files, 1, entries, seen), DOMAIN tags, tags)

\* a caller is free to make its next call, whether the cache runs or not
CallerFree == loop.pc # "off" /\ req.pc \in {"idle", "done", "raised"}

\* posts_cache.py:356  self.refresh_thread.is_alive()
RefreshThreadAlive == loop.pc \notin {"off", "done"}

\* app.py:1706-1716  cleanup_on_exit, run once at exit on the started cache:
\* posts_cache.save_all_caches()
ExitSave ==
    /\ CallerFree
    /\ running
    /\ \E c \in workload :
         /\ c.op = "cleanup_on_exit"
         /\ req' = Called(c, "stop")
    /\ disk' = save_all_caches(disk, cache, tag_cache, post_ids_seen)
    /\ UNCHANGED <<cache, tag_cache, post_ids_seen, running, initialized, event,
                   startup_complete, prio, loop, rt, upstream, workload>>

\* app.py:1718-1719, posts_cache.py:353-359  posts_cache.stop(): running is
\* cleared, the event is set when the refresh thread is alive, and the join
\* returns within its 2 seconds
ExitStop ==
    /\ req.pc = "stop"
    /\ running' = FALSE
    /\ event' = IF RefreshThreadAlive THEN TRUE ELSE event
    /\ req' = [req EXCEPT !.pc = "done"]
    /\ UNCHANGED <<cache, tag_cache, post_ids_seen, initialized,
                   startup_complete, disk, prio, loop, rt, upstream, workload>>

\* posts_cache.py:347-351  wait_for_initialization: True at once when
\* initialized, else the caller waits on the event
WaitCall ==
    /\ CallerFree
    /\ \E c \in workload :
         /\ c.op = "wait_for_initialization"
         /\ req' = IF initialized THEN [Called(c, "done") EXCEPT !.ok = TRUE]
                   ELSE Called(c, "waiting")
    /\ UNCHANGED <<cache, tag_cache, post_ids_seen, running, initialized, event,
                   startup_complete, disk, prio, loop, rt, upstream, workload>>

\* posts_cache.py:351  return self.event.wait(timeout): True when the event
\* is set, False when the timeout passes first
WaitReturn ==
    /\ req.pc = "waiting"
    /\ req' = [req EXCEPT !.pc = "done", !.ok = event]
    /\ UNCHANGED <<cache, tag_cache, post_ids_seen, running, initialized, event,
                   startup_complete, disk, prio, loop, rt, upstream, workload>>

\* ------------------------------------------------------- the environment
P1 == MkPost(1, TRUE, {"t"})
P2 == MkPost(2, TRUE, {})
P3 == MkPost(3, TRUE, {"t"})
P4 == MkPost(4, TRUE, {})
\* a post without a title
PU == MkPost(5, FALSE, {})
\* a post without an id, whose author and permlink give the id 9
PA == [MkPost(6, TRUE, {}) EXCEPT !.id = 0, !.ap = 9]

Raises == [raises |-> TRUE, posts |-> <<>>]
Answers(ps) == [raises |-> FALSE, posts |-> ps]

GetPosts(feed, tag, mode, timeout, limit) ==
    [op |-> "get_posts", feed |-> feed, tag |-> tag, mode |-> mode,
     timeout |-> timeout, limit |-> limit]

MergeNewPosts(feed, tag) ==
    [op |-> "merge_new_posts", feed |-> feed, tag |-> tag, mode |-> None,
     timeout |-> -1, limit |-> 0]

CleanupOnExit ==
    [op |-> "cleanup_on_exit", feed |-> None, tag |-> None, mode |-> None,
     timeout |-> -1, limit |-> 0]

WaitForInitialization ==
    [op |-> "wait_for_initialization", feed |-> None, tag |-> None,
     mode |-> None, timeout |-> RouteTimeout, limit |-> 0]

NoFiles == <<>>

\* a snapshot of "promoted" an earlier run left
PromotedFile == Put(NoFiles, Key("promoted", None), Snapshot(<<P1, P2>>, <<>>, {1, 2}))

\* ----------------------------------------------------- the specifications
Refresh ==
    \E t \in Frames :
        \/ RGuard(t) \/ RMark(t) \/ RFetch(t) \/ RWriteIds(t) \/ RBranch(t)
        \/ RReplace(t) \/ RAppend(t) \/ RSave(t) \/ RFinally(t)

Lifecycle ==
    \/ Start \/ PrioPick \/ PrioInit
    \/ LoopSpawn \/ LoopJoin \/ LoopComplete \/ LoopInitialized \/ LoopSignal
    \/ LoopWait

GetMain == GetSelect \/ GetCheck \/ GetSpawn

Poll == GetPoll \/ GetWake

Merge == MergeRead \/ MergeWrite \/ MergeClear \/ MergeSave

\* Start-up: the process from construction to the end of the background
\* thread, from an empty cache directory or with a snapshot in it.
Next == Lifecycle \/ Refresh

Init ==
    InitWith({NoFiles, PromotedFile},
             {Raises, Answers(<<P2, P3>>), Answers(<<P2>>)},
             {}, 0)

Spec == Init /\ [][Next]_vars

\* Cold start of scenario A: no snapshot files, a Fetcher that returns the
\* same ten titled posts to every call.
TenPosts == [i \in 1..10 |-> MkPost(i, TRUE, {})]

InitColdStart == InitWith({NoFiles}, {Answers(TenPosts)}, {}, 0)

SpecColdStart == InitColdStart /\ [][Next]_vars

\* Steady state, as Spec reaches it from a snapshot of "promoted" when the
\* fetches of "trending", "hot" and "new" raised: start-up is over, the
\* background thread has ended, "promoted" holds what its snapshot held, and
\* the InitRefresh thread of "promoted" (the join on it timed out) is still
\* waiting for the Fetcher.  n refresh threads can be started by request
\* handlers.
SteadyState(n) ==
    /\ startup_complete = TRUE /\ initialized = TRUE
    /\ event = TRUE /\ running = TRUE
    /\ loop = [pc |-> "done", i |-> 1] /\ prio = [st |-> "done", i |-> 3]
    /\ cache = [f \in MainFeedSet |->
                  IF f = "promoted"
                  THEN [posts |-> disk[Key(f, None)].posts, new_posts |-> <<>>,
                        last_updated |-> "ts", updating |-> TRUE]
                  ELSE EmptyEntry]
    /\ post_ids_seen = [k \in {Key(f, None) : f \in MainFeedSet} |->
                          IF k = Key("promoted", None) THEN disk[k].post_ids
                          ELSE {}]
    /\ rt = [t \in FramesWith(n) |->
               IF t = InitFrame(2)
               THEN [CallFrame("promoted", None, FALSE) EXCEPT !.pc = "fetch"]
               ELSE IdleFrame]
    /\ tag_cache = <<>>
    /\ req = IdleReq

\* the refresh after start-up: the replacing branch is never taken
SteadyRefresh ==
    \E t \in Frames :
        \/ RGuard(t) \/ RMark(t) \/ RFetch(t) \/ RWriteIds(t) \/ RBranch(t)
        \/ RAppend(t) \/ RSave(t) \/ RFinally(t)

\* Steady state with a client of "promoted": get_posts for the new posts
\* with a timeout (which starts a refresh thread while one is in flight) and
\* merge_new_posts.
NewOnly == GetPosts("promoted", None, "new_only", RouteTimeout, 10)

InitSteady ==
    /\ disk = PromotedFile
    /\ SteadyState(MaxThreads)
    /\ upstream = {Raises, Answers(<<P2, P3>>), Answers(<<P3, P4>>)}
    /\ workload = {NewOnly, MergeNewPosts("promoted", None)}

NextSteady == SteadyRefresh \/ GetMain \/ Merge

SpecSteady == InitSteady /\ [][NextSteady]_vars

\* Steady state with clients of "promoted", of its tag feed "t" and of a
\* feed type that is no main feed, and room for two refresh threads started
\* by them.
InitRace ==
    /\ disk = PromotedFile
    /\ SteadyState(RaceThreads)
    /\ upstream = {Raises, Answers(<<P2, P3>>)}
    /\ workload = {NewOnly, GetPosts("promoted", "t", "posts", -1, 10),
                   GetPosts("bogus", None, "posts", RouteTimeout, 10)}

NextRace == SteadyRefresh \/ GetMain \/ GetTag

SpecRace == InitRace /\ [][NextRace]_vars

\* the refresh while the Fetcher is down: every call of it raises, or does
\* not return
FailedRefresh ==
    \E t \in Frames : RGuard(t) \/ RMark(t) \/ RFetch(t) \/ RFinally(t)

\* Start-up from an empty cache directory while the Fetcher is down, with a
\* client of "trending" that passes the posts route's timeout.
InitPoll ==
    InitWith({NoFiles}, {Raises},
             {GetPosts("trending", None, "posts", RouteTimeout, 10)}, MaxThreads)

NextPoll == Lifecycle \/ FailedRefresh \/ GetMain \/ Poll

SpecPoll == InitPoll /\ [][NextPoll]_vars

\* One refresh of "promoted" in steady state, for every seen set the
\* snapshot can have restored and every answer of the Fetcher up to
\* MaxFetch posts (titled and untitled posts, posts without an id, the same
\* post twice), and for a Fetcher that raises.
MaxFetch == 3
SeenPool == {1, 2, 3, 9}
PostPool == {P1, P2, P3, PA, PU}
Fetches == UNION {[1..n -> PostPool] : n \in 0..MaxFetch}

InitClassify ==
    /\ disk \in {Put(NoFiles, Key("promoted", None), Snapshot(<<P1, P2>>, <<>>, S)) :
                   S \in SUBSET SeenPool}
    /\ SteadyState(0)
    /\ upstream \in {{Answers(F)} : F \in Fetches} \cup {{Raises}}
    /\ workload = {}

NextClassify ==
    \E t \in Frames :
        \/ RFetch(t) \/ RWriteIds(t) \/ RBranch(t) \/ RAppend(t) \/ RSave(t)
        \/ RFinally(t)

SpecClassify == InitClassify /\ [][NextClassify]_vars

\* the steps of PostsCacheRefreshThread
LoopThread ==
    \/ LoopSpawn \/ LoopJoin \/ LoopComplete \/ LoopInitialized \/ LoopSignal
    \/ LoopWait

\* Start-up from an empty cache directory where the background thread, once
\* started, keeps being scheduled; the Fetcher raises, answers, or never
\* returns (no refresh call is required to take its next step).
InitLive == InitWith({NoFiles}, {Raises, Answers(<<P1>>)}, {}, 0)

SpecLive == InitLive /\ [][Next]_vars /\ WF_vars(LoopThread)

\* Snapshot files of "promoted" that _load_cache_from_file meets: older than
\* MAX_CACHE_AGE (line 132), not JSON (line 140), JSON without "posts"
\* (line 145), and JSON whose "last_updated" is no ISO timestamp (line 174).
StaleFile ==
    Put(NoFiles, Key("promoted", None),
        [Snapshot(<<P1, P2>>, <<>>, {1, 2}) EXCEPT !.fresh = FALSE])

GarbledFile ==
    Put(NoFiles, Key("promoted", None),
        [Snapshot(<<P1, P2>>, <<>>, {1, 2}) EXCEPT !.shape = "garbled"])

NoPostsFile ==
    Put(NoFiles, Key("promoted", None),
        [Snapshot(<<>>, <<>>, {1, 2}) EXCEPT !.shape = "no_posts"])

BadTimestampFile ==
    Put(NoFiles, Key("promoted", None),
        [Snapshot(<<P1, P2>>, <<>>, {1, 2}) EXCEPT !.last_updated = "bad"])

\* Start-up from a cache directory that holds one snapshot of "promoted",
\* usable or not, while the Fetcher is down: what the feeds hold is what
\* the loads of start() left.
InitSnapshots ==
    InitWith({StaleFile, GarbledFile, NoPostsFile, BadTimestampFile,
              PromotedFile}, {Raises}, {}, 0)

NextSnapshots == Lifecycle \/ FailedRefresh

SpecSnapshots == InitSnapshots /\ [][NextSnapshots]_vars

Shutdown == ExitSave \/ ExitStop

WaitInit == WaitCall \/ WaitReturn

\* Start-up with a caller that waits for the initialization and runs the
\* exit handler, at any moment after start().
InitShutdown ==
    InitWith({NoFiles}, {Raises, Answers(<<P1>>)},
             {CleanupOnExit, WaitForInitialization}, 0)

NextShutdown == Lifecycle \/ Refresh \/ Shutdown \/ WaitInit

SpecShutdown == InitShutdown /\ [][NextShutdown]_vars

\* Start-up with the exit handler run at any moment after start(); the
\* background thread, once started, keeps being scheduled.
InitStop == InitWith({NoFiles}, {Raises, Answers(<<P1>>)}, {CleanupOnExit}, 0)

NextStop == Lifecycle \/ Refresh \/ Shutdown

SpecStop == InitStop /\ [][NextStop]_vars /\ WF_vars(LoopThread)

\* Start-up, from an empty cache directory or with a snapshot in it, while
\* every answer of the Fetcher carries a post without a title: refreshes
\* run before and after the startup-complete flag is set.
InitTitles ==
    InitWith({NoFiles, PromotedFile}, {Answers(<<PU, P3>>), Answers(<<PU>>)},
             {}, 0)

SpecTitles == InitTitles /\ [][Next]_vars

\* Steady state with a client of the tag feed "t" of "promoted", room for two
\* refresh threads started by it, and a Fetcher whose answer changes from
\* one call to the next.
InitSeen ==
    /\ disk = PromotedFile
    /\ SteadyState(RaceThreads)
    /\ upstream = {Answers(<<P2, P3>>), Answers(<<P3, P4>>)}
    /\ workload = {GetPosts("promoted", "t", "posts", -1, 10)}

NextSeen == SteadyRefresh \/ GetTag

SpecSeen == InitSeen /\ [][NextSeen]_vars

\* The snapshot of "promoted" a steady-state refresh left in an earlier run:
\* P3 was appended to new_posts and its id is among the post_ids (lines
\* 238-245).
AppendedFile ==
    Put(NoFiles, Key("promoted", None), Snapshot(<<P1, P2>>, <<P3>>, {1, 2, 3}))

\* Restart on that snapshot, the Fetcher still returning P2 and P3.
InitRestart == InitWith({AppendedFile}, {Answers(<<P2, P3>>)}, {}, 0)

SpecRestart == InitRestart /\ [][Next]_vars

\* A snapshot of "promoted" written more than the refresh interval (line 20,
\* 300 s) and less than MAX_CACHE_AGE (line 24, 12 hours) ago: it is loaded,
\* and the last_updated it carries is that old.
OldFile ==
    Put(NoFiles, Key("promoted", None),
        [Snapshot(<<P1, P2>>, <<>>, {1, 2}) EXCEPT !.last_updated = "old"])

\* Start-up from a snapshot of "promoted" that is fresh or old while the
\* Fetcher is down, with clients of "promoted" with and without a timeout
\* and of the empty feed "new".
InitStale ==
    InitWith({PromotedFile, OldFile}, {Raises},
             {GetPosts("promoted", None, "posts", RouteTimeout, 10),
              GetPosts("promoted", None, "posts", -1, 10),
              GetPosts("new", None, "posts", RouteTimeout, 10)}, MaxThreads)

NextStale == Lifecycle \/ FailedRefresh \/ GetMain

SpecStale == InitStale /\ [][NextStale]_vars

\* Start-up while the Fetcher is down, with a client of the tag feed "t" of
\* "promoted"; the background thread, once started, keeps being scheduled.
InitTags ==
    InitWith({NoFiles}, {Raises},
             {GetPosts("promoted", "t", "posts", -1, 10)}, MaxThreads)

NextTags == Lifecycle \/ FailedRefresh \/ GetTag

SpecTags == InitTags /\ [][NextTags]_vars /\ WF_vars(LoopThread)

\* ------------------------------------------------------------- the claims
\* the refresh calls between "mark updating" (line 591) and "clear updating"
\* (lines 694-699) on the key of feed and tag
InFlight(feed, tag) ==
    {t \in Frames : /\ rt[t].feed = feed
                    /\ rt[t].tag = tag
                    /\ rt[t].pc \in {"fetch", "write_ids", "branch", "replace",
                                     "append", "save", "finally"}}

\* C3: cold start, ten titled posts from every fetch: once the startup flag
\* is true and the priority thread has ended, is_feed_ready("trending") is
\* true and get_posts("trending", limit=10) returns the ten posts.
ColdStartServesTrending ==
    (startup_complete /\ prio.st = "done")
        => /\ is_feed_ready("trending")
           /\ Take(Selected(cache["trending"], "posts"), 10) = TenPosts

\* C4: in steady state (startup complete, stop() not called) the background
\* refresh loop is still running, going from wait to pass to wait.
LoopKeepsRunning ==
    (startup_complete /\ running) => loop.pc # "done"

\* a refresh thread writes the entry's lists (line 654/671 or 660/675)
WritesLists(t) == rt[t].pc \in {"replace", "append"} /\ rt'[t].pc = "save"

\* C10 as stated: a refresh that succeeds while the startup flag is false
\* leaves posts equal to the fetched, title-filtered list, with every
\* fetched id in the seen set.
StartupRefreshReplaces ==
    [][\A t \in Frames :
          (WritesLists(t) /\ ~startup_complete)
              => /\ EntryOf(rt[t].feed, rt[t].tag)'.posts = rt[t].posts
                 /\ Ids(rt[t].posts) \subseteq post_ids_seen[Key(rt[t].feed, rt[t].tag)]
      ]_vars

\* the tags the clients of the model ask for, and None for the main feed
Tags == {None, "t"}

\* C1: for every feed key, at most one call of _refresh_feed is between
\* "mark updating" and "clear updating" at any instant.
OneRefreshPerKey ==
    \A f \in MainFeedSet, tg \in Tags : Cardinality(InFlight(f, tg)) <= 1

\* no refresh call and no request handler is at work on the main feed
Quiet(feed) ==
    /\ \A t \in Frames : rt[t].pc # "idle" => rt[t].feed # feed
    /\ req.pc \in {"idle", "done"}

\* C2: once a refresh and a merge of the same key have both finished, every
\* post the refresh classified as new (its id is in the seen set) is in
\* posts or in new_posts of that key.
MergeKeepsAppended ==
    Quiet("promoted")
        => post_ids_seen[Key("promoted", None)]
              \subseteq (Ids(cache["promoted"].posts)
                            \cup Ids(cache["promoted"].new_posts))

\* C5: get_posts called with timeout T has returned after waiting at most
\* T plus one poll increment.
WaitWithinTimeout ==
    (req.op = "get_posts" /\ req.timeout # -1)
        => req.wait <= req.timeout + PollStep

\* C6: saving a main feed with _save_cache_to_file and loading the file into
\* a fresh cache gives back the posts, the new_posts and the seen set.
RoundTrip ==
    \A f \in MainFeedSet :
        LET r == LoadMain(SaveMain(NoFiles, f, cache, post_ids_seen), f,
                          EmptyEntry, {})
        IN  /\ r.entry.posts = cache[f].posts
            /\ r.entry.new_posts = cache[f].new_posts
            /\ r.ids = post_ids_seen[Key(f, None)]

\* C7: merge_new_posts with new_posts = N and posts = P writes posts = N ++ P,
\* then new_posts = [], and returns |N|, leaving the other list alone at each
\* write; with new_posts = [] it returns 0 and writes nothing.
MergeMovesNewToFront ==
    [][/\ MergeRead =>
            LET e == EntryOf(req'.feed, req'.tag) IN
            /\ e.new_posts = <<>> => (req'.pc = "done" /\ req'.count = 0)
            /\ e.new_posts # <<>> => (req'.pc = "m_write" /\ req'.posts = e.new_posts)
            /\ cache' = cache
       /\ MergeWrite =>
            /\ EntryOf(req.feed, req.tag)'.posts
                 = req.posts \o EntryOf(req.feed, req.tag).posts
            /\ EntryOf(req.feed, req.tag)'.new_posts
                 = EntryOf(req.feed, req.tag).new_posts
       /\ MergeClear =>
            /\ EntryOf(req.feed, req.tag)'.new_posts = <<>>
            /\ EntryOf(req.feed, req.tag)'.posts = EntryOf(req.feed, req.tag).posts
       /\ MergeSave => (req'.count = Len(req.posts) /\ cache' = cache)
      ]_vars

\* scenario B merged: [p3] moved in front of [p1, p2], 1 returned
MergedToFront ==
    /\ req.op = "merge_new_posts" /\ req.pc = "done" /\ req.count = 1
    /\ cache["promoted"].posts = <<P3, P1, P2>>
    /\ cache["promoted"].new_posts = <<>>

\* the ids of ps are pairwise different
DistinctIds(ps) == \A i, j \in DOMAIN ps : ps[i].id = ps[j].id => i = j

\* C8: with seen set S and title-filtered fetch result F, the posts
\* classified as new are the posts of F whose id is not in S, in fetched
\* order; the seen set written is S with the ids of F; classifying F again
\* against it finds no new post.
ClassifiesSetDifference ==
    [][\A t \in Frames :
          LET k == Key(rt[t].feed, rt[t].tag)
              S == Get(post_ids_seen, k, {})
              F == rt'[t].posts
          IN  /\ (RFetch(t) /\ rt'[t].pc = "write_ids") =>
                    /\ DistinctIds(F) =>
                          rt'[t].new = SelectSeq(F, LAMBDA p : p.id \notin S)
                    /\ Ids(rt'[t].new) = Ids(F) \ S
                    /\ DistinctIds(rt'[t].new)
                    /\ rt'[t].ids = S \cup Ids(F)
                    /\ Classify(F, rt'[t].ids).new = <<>>
              /\ RWriteIds(t) => post_ids_seen'[k] = rt[t].ids
      ]_vars

\* of three fetched posts, one seen before and one without an id, two are new
ClassifiedTwoOfThree ==
    /\ rt[InitFrame(2)].pc = "write_ids"
    /\ Len(rt[InitFrame(2)].posts) = 3
    /\ Ids(rt[InitFrame(2)].new) = {3, 9}
    /\ rt[InitFrame(2)].ids = {1, 2, 3, 9}

\* C9: after start-up a refresh with posts fetched takes the appending
\* branch: it puts the fetched posts not seen before behind the new_posts it
\* read and leaves posts as it is; posts changes only when merge_new_posts
\* writes it.
SteadyRefreshAppends ==
    [][/\ \A t \in Frames :
            LET e == EntryOf(rt[t].feed, rt[t].tag)
                k == Key(rt[t].feed, rt[t].tag)
            IN  /\ (RFetch(t) /\ rt'[t].pc = "write_ids") =>
                      rt'[t].new = SelectSeq(rt'[t].posts,
                                             LAMBDA p : p.id \notin post_ids_seen[k])
                /\ (RBranch(t) /\ startup_complete) =>
                      (rt'[t].pc = "append" /\ rt'[t].old = e.new_posts
                         /\ rt'[t].new = rt[t].new)
                /\ RAppend(t) =>
                      /\ EntryOf(rt[t].feed, rt[t].tag)'.new_posts
                            = rt[t].old \o rt[t].new
                      /\ EntryOf(rt[t].feed, rt[t].tag)'.posts = e.posts
       /\ \A f \in MainFeedSet :
            cache'[f].posts # cache[f].posts => MergeWrite
      ]_vars

\* scenario B, and a second refresh after it: [p4] put behind [p3], posts
\* still [p1, p2]
AppendedBehind ==
    /\ cache["promoted"].posts = <<P1, P2>>
    /\ cache["promoted"].new_posts = <<P3, P4>>
    /\ \E t \in Frames : rt[t].feed = "promoted" /\ rt[t].pc = "save"

\* every answer the Fetcher can give is a failure: it raises, or none of
\* the posts it returns has a title
FetcherFails == \A a \in upstream : a.raises \/ TitleFilter(a.posts) = <<>>

\* C11: when the Fetcher raises or returns no titled post, the refresh
\* leaves posts and new_posts as they were (here: as the snapshot restored
\* them), and once it has returned the updating flag is false.
FailedRefreshKeepsFeed ==
    FetcherFails =>
        /\ cache["promoted"].posts = disk[Key("promoted", None)].posts
        /\ cache["promoted"].new_posts = <<>>
        /\ rt[InitFrame(2)].pc = "idle" => ~cache["promoted"].updating
        /\ rt[InitFrame(2)].pc \in {"idle", "fetch", "finally"}

\* a refresh whose fetch brought only a post without a title has returned
UntitledFetchReturned ==
    /\ upstream = {Answers(<<PU>>)}
    /\ rt[InitFrame(2)].pc = "idle"
    /\ ~cache["promoted"].updating

\* C12: after start() the startup-complete flag eventually becomes true,
\* whether the Fetcher raises, answers or never returns.
StartupCompletes == running ~> startup_complete

\* the flag is true while the Fetcher has not returned for "new"
CompleteWhileFetching ==
    /\ startup_complete
    /\ rt[InitFrame(1)].pc = "fetch"

\* C13: the startup-complete flag is never true while _load_priority_feeds
\* is still refreshing a priority feed, and once true it stays true.
FlagAfterPriorityLoad ==
    [][/\ startup_complete' => prio'.st = "done"
       /\ startup_complete => startup_complete']_vars

\* the entry of the key of feed and tag in the dicts c and tc, or an empty
\* entry when the key is unknown
OwnEntry(c, tc, feed, tag) ==
    IF tag = None THEN Get(c, feed, EmptyEntry)
    ELSE Get(tc, Key(feed, tag), EmptyEntry)

\* C14: get_posts returns the first limit posts of the list its mode selects
\* from the entry of its own key, main or tag-scoped, and of no other entry.
ReturnsOwnList ==
    [][/\ GetTag =>
            req'.ret = Take(Selected(OwnEntry(cache', tag_cache', req'.feed,
                                              req'.tag), req'.mode),
                            req'.limit)
       /\ GetSelect =>
            req'.posts = Selected(OwnEntry(cache, tag_cache, req'.feed, req'.tag),
                                  req'.mode)
       /\ ((GetCheck \/ GetSpawn) /\ req'.pc = "done") =>
            req'.ret = Take(req.posts, req.limit)
      ]_vars

\* the refresh calls t that this step starts
Started == {t \in Frames : rt[t].pc = "idle" /\ rt'[t].pc = "guard"}

\* C15: a get_posts call that finds its list empty while no refresh of the
\* key is in flight starts exactly one refresh thread for the key and
\* returns the empty list.
EmptyStartsRefresh ==
    [][/\ (GetCheck /\ req.posts = <<>> /\ req.feed \in DOMAIN cache
              /\ ~cache[req.feed].updating /\ InFlight(req.feed, None) = {})
            => req'.pc = "spawn"
       /\ GetSpawn =>
            (Cardinality(Started) = 1 /\ req'.ret = <<>> /\ req'.pc = "done")
       /\ (GetTag /\ req'.ret = <<>> /\ InFlight(req'.feed, req'.tag) = {})
            => Cardinality(Started) = 1
      ]_vars

\* C16: no read operation raises to its caller.
ReadsNeverRaise == req.pc # "raised"

\* C17: the seen-ID set of every key holds the ID of every post in the key's
\* posts and new_posts lists.
SeenCoversLists ==
    /\ \A f \in MainFeedSet :
        (Ids(cache[f].posts) \cup Ids(cache[f].new_posts)) \ {0}
            \subseteq post_ids_seen[Key(f, None)]
    /\ \A k \in DOMAIN tag_cache :
        (Ids(tag_cache[k].posts) \cup Ids(tag_cache[k].new_posts)) \ {0}
            \subseteq Get(post_ids_seen, k, {})

\* the snapshot file of the main feed is one the load must not use: stale,
\* unparsable, a required field missing, or a required field invalid
Unusable(feed) ==
    LET k == Key(feed, None) IN
    /\ k \in DOMAIN disk
    /\ \/ ~disk[k].fresh
       \/ disk[k].shape # "ok"
       \/ disk[k].last_updated = "bad"

\* C20: the loads of start() treat an unusable snapshot as no snapshot: the
\* feed's posts stay empty, its last_updated absent and its seen set empty.
UnusableSnapshotIgnored ==
    [][Start =>
        \A f \in MainFeedSet :
            Unusable(f) =>
                /\ cache'[f].posts = <<>>
                /\ cache'[f].last_updated = None
                /\ post_ids_seen'[Key(f, None)] = {}
      ]_vars

\* DEFAULT_CACHE_SIZE (posts_cache.py:21, 50 in the program) at the scale of
\* the model: the number of posts the Fetcher is asked for, which no answer
\* and no snapshot of the scenarios exceeds
CacheSize == 2

\* C18: the posts list of every key holds at most the configured cache size
\* of posts.
CacheSizeKept ==
    /\ \A f \in MainFeedSet : Len(cache[f].posts) <= CacheSize
    /\ \A k \in DOMAIN tag_cache : Len(tag_cache[k].posts) <= CacheSize

\* C19: the save that ends a successful refresh leaves a snapshot file of
\* the key whose posts and new_posts are the lists in memory and whose
\* post_ids hold the IDs of both lists.
RefreshWritesSnapshot ==
    [][\A t \in Frames :
        RSave(t) =>
            LET k == Key(rt[t].feed, rt[t].tag)
                e == OwnEntry(cache', tag_cache', rt[t].feed, rt[t].tag)
            IN  /\ k \in DOMAIN disk'
                /\ disk'[k].posts = e.posts
                /\ disk'[k].new_posts = e.new_posts
                /\ (Ids(e.posts) \cup Ids(e.new_posts)) \ {0}
                       \subseteq disk'[k].post_ids
      ]_vars

\* the feed keys that hold posts or new_posts in memory
HoldingKeys ==
    {Key(f, None) : f \in {g \in MainFeedSet :
        cache[g].posts # <<>> \/ cache[g].new_posts # <<>>}}
    \cup {k \in DOMAIN tag_cache :
        tag_cache[k].posts # <<>> \/ tag_cache[k].new_posts # <<>>}

\* C21: on shutdown the cache is stopped before the save-everything pass
\* runs, and when the exit handler ends every key that holds posts or
\* new_posts has a snapshot with exactly these lists.
ShutdownPersistsAll ==
    [][/\ ExitSave => ~running
       /\ ExitStop =>
            \A k \in HoldingKeys :
                /\ k \in DOMAIN disk'
                /\ disk'[k].posts = OwnEntry(cache, tag_cache, k[1], k[2]).posts
                /\ disk'[k].new_posts =
                       OwnEntry(cache, tag_cache, k[1], k[2]).new_posts
      ]_vars

\* C22: once stop() has been called the background refresh loop launches no
\* further pass and terminates.
StopEndsLoop ==
    /\ [](loop.pc # "pass")
    /\ (~running /\ loop.pc # "off") ~> (loop.pc = "done")

StoppedWhileWaiting ==
    /\ ~running
    /\ req.op = "cleanup_on_exit"
    /\ loop.pc = "wait"

\* C27: wait_for_initialization returns True only when the initialized flag
\* or the startup-complete flag is true.
WaitTrueMeansInitialized ==
    [][(WaitCall \/ WaitReturn) =>
        ((req'.pc = "done" /\ req'.ok) => (initialized \/ startup_complete))
      ]_vars

\* C23: a tag-feed entry that is never successfully refreshed is eventually
\* removed from the tag cache.
TagEntryEvicted ==
    (Key("promoted", "t") \in DOMAIN tag_cache)
        ~> (Key("promoted", "t") \notin DOMAIN tag_cache)

\* C24: get_posts on a key that is not updating starts a background refresh
\* when the key's data is at least the refresh interval old, and starts
\* none when the data is fresh.
StaleStartsRefresh ==
    [][(GetCheck /\ req'.pc = "done" /\ req.feed \in DOMAIN cache
            /\ ~cache[req.feed].updating) =>
        /\ cache[req.feed].last_updated = "old" => Started # {}
        /\ cache[req.feed].last_updated = "ts" => Started = {}
      ]_vars

\* C25: a fetched post without a title is in neither list of any key and
\* its ID is in no seen-ID set, after refreshes in start-up and in
\* steady-state mode.
UntitledDropped ==
    \A f \in MainFeedSet :
        /\ \A p \in Range(cache[f].posts \o cache[f].new_posts) : p.title
        /\ PU.id \notin post_ids_seen[Key(f, None)]

FetchedWithUntitledBothModes ==
    /\ P3 \in Range(cache["trending"].posts)
    /\ P3 \in Range(cache["new"].new_posts)
    /\ 3 \in post_ids_seen[Key("new", None)]

\* C26: the updating flag of every key is true exactly when a refresh of
\* the key is between "mark updating" and "clear updating".
UpdatingMirrorsInFlight ==
    /\ \A f \in MainFeedSet : cache[f].updating <=> InFlight(f, None) # {}
    /\ \A k \in DOMAIN tag_cache :
        tag_cache[k].updating <=> InFlight(k[1], k[2]) # {}

\* C28: when a successful refresh has written the key's list, every titled
\* post of its fetch result is, by ID, in posts or new_posts of the key.
FetchedPostsPresent ==
    [][\A t \in Frames :
        (RReplace(t) \/ RAppend(t)) =>
            Ids(rt[t].posts) \subseteq
                Ids(OwnEntry(cache', tag_cache', rt[t].feed, rt[t].tag).posts)
                \cup Ids(OwnEntry(cache', tag_cache', rt[t].feed,
                                  rt[t].tag).new_posts)
      ]_vars

\* C29: no post ID occurs twice in posts ++ new_posts of a key, at the
\* latest once the refreshes and merges at work on the key have ended.
NoDuplicateIds ==
    \A f \in MainFeedSet :
        Quiet(f) => DistinctIds(cache[f].posts \o cache[f].new_posts)

\* C30: no step of a refresh or of merge_new_posts removes an ID from the
\* seen-ID set of a key.
SeenOnlyGrows ==
    [][\A k \in DOMAIN post_ids_seen :
        /\ k \in DOMAIN post_ids_seen'
        /\ post_ids_seen[k] \subseteq post_ids_seen'[k]
      ]_vars
====
